---- MODULE Spec2Model ----
(***************************************************************************)
(* A model of pyasil's integrity module (src/src/pyasil/integrity.py):     *)
(* the ASIL tag recognizer, the Integrity value with its ordering and      *)
(* canonical rendering, and the decomposition inheritance rule.            *)
(*                                                                         *)
(* A Python str is a sequence of characters; a character is a one-letter   *)
(* TLA+ string, and the four non-ASCII characters that re.IGNORECASE folds *)
(* onto ASCII letters are named by their code point ("U+0130").            *)
(* Python's None is the empty tuple and a present value v is <<v>>, so     *)
(* that None differs from the level 0 and from the empty string.           *)
(***************************************************************************)
EXTENDS Integers, Sequences, FiniteSets, TLC

None == <<>>
Some(v) == <<v>>
Val(o) == o[1]

(***************************************************************************)
(* Characters                                                              *)
(***************************************************************************)
UpperAlpha ==
    <<"A", "B", "C", "D", "E", "F", "G", "H", "I", "J", "K", "L", "M",
      "N", "O", "P", "Q", "R", "S", "T", "U", "V", "W", "X", "Y", "Z">>
LowerAlpha ==
    <<"a", "b", "c", "d", "e", "f", "g", "h", "i", "j", "k", "l", "m",
      "n", "o", "p", "q", "r", "s", "t", "u", "v", "w", "x", "y", "z">>

IsUpper(c) == \E i \in DOMAIN UpperAlpha : UpperAlpha[i] = c
IsLower(c) == \E i \in DOMAIN LowerAlpha : LowerAlpha[i] = c

\* ord() and chr() on the capital letters: ord("A") = 65.
ord(c) == 64 + (CHOOSE i \in DOMAIN UpperAlpha : UpperAlpha[i] = c)
chr(n) == UpperAlpha[n - 64]

\* str.upper() on one character: U+017F (long s) and U+0131 (dotless i)
\* have the capitals S and I; U+0130 and U+212A are capitals already.
upper_char(c) ==
    IF IsLower(c) THEN UpperAlpha[CHOOSE i \in DOMAIN LowerAlpha : LowerAlpha[i] = c]
    ELSE IF c = "U+017F" THEN "S"
    ELSE IF c = "U+0131" THEN "I"
    ELSE c
lower_char(c) ==
    IF IsUpper(c) THEN LowerAlpha[CHOOSE i \in DOMAIN UpperAlpha : UpperAlpha[i] = c]
    ELSE c

upper(s) == [i \in 1..Len(s) |-> upper_char(s[i])]

\* The whitespace str.strip() removes (the characters of it the model uses).
Whitespace == {" ", "\t", "\n"}

RECURSIVE lstrip(_)
lstrip(s) == IF s # <<>> /\ Head(s) \in Whitespace THEN lstrip(Tail(s)) ELSE s
RECURSIVE rstrip(_)
rstrip(s) ==
    IF s # <<>> /\ s[Len(s)] \in Whitespace THEN rstrip(SubSeq(s, 1, Len(s) - 1)) ELSE s
strip(s) == rstrip(lstrip(s))

(***************************************************************************)
(* re.match(r"^(ASIL[-_ ]?([ABCD])|(QM)) ?(\( ?([ABCD]) ?\)|\( ?(QM) ?\))?$", *)
(*          asil.strip(), re.IGNORECASE)                                   *)
(* Each piece of the pattern is the set of ways it can match at a          *)
(* position; a match is a choice of one way per piece that ends at "$".    *)
(***************************************************************************)

\* ieq without re.IGNORECASE.
ieq_case_sensitive(c, p) == c = p

\* One pattern letter p against the character c under re.IGNORECASE on a
\* str pattern: the two ASCII cases, and the non-ASCII characters whose case
\* folding is an ASCII letter.
ieq(c, p) ==
    \/ c = p
    \/ c = lower_char(p)
    \/ p = "I" /\ c \in {"U+0130", "U+0131"}
    \/ p = "S" /\ c = "U+017F"
    \/ p = "K" /\ c = "U+212A"

\* The literal w matches s at position i.
lit(s, i, w) ==
    /\ i + Len(w) - 1 <= Len(s)
    /\ \A k \in 1..Len(w) : ieq(s[i + k - 1], w[k])

\* The class [ABCD] matches s at position i.
cls_ABCD(s, i) == i <= Len(s) /\ \E p \in {"A", "B", "C", "D"} : ieq(s[i], p)

\* " ?" at position i: the positions after it.
re_sp(s, i) == {i} \cup (IF i <= Len(s) /\ s[i] = " " THEN {i + 1} ELSE {})

\* Group 1, (ASIL[-_ ]?([ABCD])|(QM)), from the start of s.
re_base(s) ==
    {[pos |-> 5 + k + 1, g2 |-> Some(SubSeq(s, 5 + k, 5 + k)), g3 |-> None] :
        k \in {k \in {0, 1} :
                 /\ lit(s, 1, <<"A", "S", "I", "L">>)
                 /\ k = 1 => (5 <= Len(s) /\ s[5] \in {"-", "_", " "})
                 /\ cls_ABCD(s, 5 + k)}}
    \cup
    {[pos |-> 3, g2 |-> None, g3 |-> Some(SubSeq(s, 1, 2))] :
        k \in {k \in {0} : lit(s, 1, <<"Q", "M">>)}}

\* \( ? at position i: the positions where the level token may start.
re_open(s, i) == IF i <= Len(s) /\ s[i] = "(" THEN re_sp(s, i + 1) ELSE {}

\*  ?\) from position j: the positions of the ")".
re_close(s, j) == {k \in re_sp(s, j) : k <= Len(s) /\ s[k] = ")"}

\* Group 4, (\( ?([ABCD]) ?\)|\( ?(QM) ?\))?, at position i: skipped, or the
\* first or the second alternative with the level token at j and ")" at k.
re_suffix(s, i) ==
    {[pos |-> i, g4 |-> None, g5 |-> None, g6 |-> None]}
    \cup
    UNION {{[pos |-> k + 1, g4 |-> Some(SubSeq(s, i, k)),
             g5 |-> Some(SubSeq(s, j, j)), g6 |-> None] : k \in re_close(s, j + 1)} :
           j \in {j \in re_open(s, i) : cls_ABCD(s, j)}}
    \cup
    UNION {{[pos |-> k + 1, g4 |-> Some(SubSeq(s, i, k)),
             g5 |-> None, g6 |-> Some(SubSeq(s, j, j + 1))] : k \in re_close(s, j + 2)} :
           j \in {j \in re_open(s, i) : lit(s, j, <<"Q", "M">>)}}

\* "$": the end of the string, or just before a newline that ends it.
re_end(s, i) == i = Len(s) + 1 \/ (i = Len(s) /\ s[i] = "\n")

\* The match objects of the whole pattern on s (none: re.match returns None).
re_match(s) ==
    UNION {UNION {{[g2 |-> b.g2, g3 |-> b.g3, g4 |-> x.g4, g5 |-> x.g5, g6 |-> x.g6] :
                      x \in {x \in re_suffix(s, i) : re_end(s, x.pos)}} :
                  i \in re_sp(s, b.pos)} :
           b \in re_base(s)}

(***************************************************************************)
(* Integrity: the static helpers                                           *)
(***************************************************************************)
QM == <<"Q", "M">>

\* Integrity.__encode
encode(asil) == IF asil = QM THEN 0 ELSE ord(asil[1]) - ord("A") + 1

\* Integrity.__decode
decode(level) == IF level = 0 THEN QM ELSE <<chr(level + ord("A") - 1)>>

\* Integrity.__parse: the pair of tokens; <<None, None>> when nothing matches.
parse(asil) ==
    LET ms == re_match(strip(asil)) IN
    IF ms = {} THEN <<None, None>>
    ELSE LET mo == CHOOSE m \in ms : TRUE
             base == IF mo.g2 # None THEN mo.g2 ELSE mo.g3
             decomposed == IF mo.g5 # None THEN mo.g5 ELSE mo.g6
         IN  IF mo.g4 = None THEN <<Some(upper(Val(base))), None>>
             ELSE <<Some(upper(Val(base))), Some(upper(Val(decomposed)))>>

\* Integrity.validate
validate(asil) == parse(asil) # <<None, None>>

(***************************************************************************)
(* Outcomes of a call: a returned value or a raised exception.             *)
(***************************************************************************)
Ret(v) == [kind |-> "return", value |-> v]
Raise(type, arg) == [kind |-> "raise", type |-> type, arg |-> arg]
Returned(r) == r.kind = "return"

(***************************************************************************)
(* Integrity: the object and its methods. An object is the record of its   *)
(* three private fields.                                                   *)
(***************************************************************************)

\* __init__ keeping the stripped text as the original.
init_stripped(asil, store_original) ==
    LET tokens == parse(asil) IN
    IF tokens = <<None, None>> THEN Raise("IntegrityError", asil)
    ELSE Ret([base |-> encode(Val(tokens[1])),
              decomposed |-> IF tokens[2] = None THEN None
                             ELSE Some(encode(Val(tokens[2]))),
              original |-> IF store_original THEN Some(strip(asil)) ELSE None])

\* Integrity.__init__: the new object, or IntegrityError with the text.
init(asil, store_original) ==
    LET original == IF store_original THEN Some(asil) ELSE None
        tokens == parse(asil)
        base_in == tokens[1]
        decomposed_in == tokens[2]
    IN  IF tokens = <<None, None>> THEN Raise("IntegrityError", asil)
        ELSE Ret([base |-> encode(Val(base_in)),
                  decomposed |-> IF decomposed_in = None THEN None
                                 ELSE Some(encode(Val(decomposed_in))),
                  original |-> original])

\* Integrity.__str__
str(self) ==
    LET base_out == <<"A", "S", "I", "L", " ">> \o decode(self.base) IN
    IF self.decomposed # None
    THEN base_out \o <<"(">> \o decode(Val(self.decomposed)) \o <<")">>
    ELSE base_out


\* __eq__ comparing the decomposed level as well.
eq_with_decomposed(self, other) ==
    self.base = other.base /\ self.decomposed = other.decomposed

\* Integrity.__eq__ and Integrity.__lt__
eq(self, other) == self.base = other.base
lt(self, other) == self.base < other.base

\* The comparisons functools.total_ordering derives from __lt__ and __eq__,
\* and the default __ne__.
ne(self, other) == ~eq(self, other)
le(self, other) == lt(self, other) \/ eq(self, other)
gt(self, other) == ~lt(self, other) /\ ne(self, other)
ge(self, other) == ~lt(self, other)

\* Integrity.original
original(self) ==
    IF self.original = None THEN Raise("AttributeError", None)
    ELSE Ret(Val(self.original))


\* verify_with_parent reading an absent decomposed level as QM.
verify_with_parent_none_as_qm(self, parent) ==
    LET d == IF self.decomposed = None THEN 0 ELSE Val(self.decomposed) IN
    d = parent.base /\ self.base <= d

\* verify_with_parent with the inequality reversed.
verify_with_parent_reversed(self, parent) ==
    /\ self.decomposed = Some(parent.base)
    /\ self.base >= Val(self.decomposed)

\* Integrity.verify_with_parent: None == parent.__base is False.
verify_with_parent(self, parent) ==
    /\ self.decomposed = Some(parent.base)
    /\ self.base <= Val(self.decomposed)

\* verify_with_child with receiver and argument in the wrong roles.
verify_with_child_swapped(self, child) == verify_with_parent(self, child)

\* Integrity.verify_with_child
verify_with_child(self, child) == verify_with_parent(child, self)

(***************************************************************************)
(* The module-level functions                                              *)
(***************************************************************************)
\* canonicalize: str(Integrity(asil))
canonicalize(asil) ==
    LET o == init(asil, FALSE) IN
    IF Returned(o) THEN Ret(str(o.value)) ELSE o

\* verify_inheritance: Integrity(child) is built first, then Integrity(parent).
verify_inheritance(parent, child) ==
    LET c == init(child, FALSE) IN
    IF ~Returned(c) THEN c
    ELSE LET p == init(parent, FALSE) IN
         IF ~Returned(p) THEN p
         ELSE Ret(verify_with_parent(c.value, p.value))

(***************************************************************************)
(* The tag grammar as a generator: the texts the callers pass in.          *)
(* A shape is one way through the grammar; Plain spells it in capitals     *)
(* without outer whitespace.                                               *)
(***************************************************************************)
MaxPad == 1

Levels == 0..4
LevelName(l) == <<QM, <<"A">>, <<"B">>, <<"C">>, <<"D">>>>[l + 1]

Separators == {<<>>, <<"-">>, <<"_">>, <<" ">>}
Sp(n) == IF n = 1 THEN <<" ">> ELSE <<>>

Suffixes == [d : Levels, pre : {0, 1}, in1 : {0, 1}, in2 : {0, 1}]
Shapes ==
    {sh \in [b : Levels, sep : Separators, suffix : {None} \cup {Some(x) : x \in Suffixes}] :
        sh.b = 0 => sh.sep = <<>>}

BaseText(b, sep) == IF b = 0 THEN QM ELSE <<"A", "S", "I", "L">> \o sep \o LevelName(b)
SuffixText(x) ==
    Sp(x.pre) \o <<"(">> \o Sp(x.in1) \o LevelName(x.d) \o Sp(x.in2) \o <<")">>
Plain(sh) ==
    BaseText(sh.b, sh.sep) \o (IF sh.suffix = None THEN <<>> ELSE SuffixText(Val(sh.suffix)))

\* The levels a shape names: the base, and the decomposed level if any.
Names(sh) ==
    [base |-> sh.b,
     decomposed |-> IF sh.suffix = None THEN None ELSE Some(Val(sh.suffix).d)]

\* Letter case, chosen per position.
CaseModes == {"upper", "lower", "odd_lower", "even_lower"}
ApplyCase(s, mode) ==
    [i \in 1..Len(s) |->
        IF \/ mode = "lower"
           \/ mode = "odd_lower" /\ i % 2 = 1
           \/ mode = "even_lower" /\ i % 2 = 0
        THEN lower_char(s[i]) ELSE s[i]]

\* Outer whitespace: up to MaxPad characters on each side.
PadChars == {" ", "\t"}
Pads == UNION {[1..n -> PadChars] : n \in 0..MaxPad}

\* Membership in the grammar, decided without the recognizer: fold the
\* ASCII letters to capitals, drop the outer whitespace, look the text up.
NormalGrammar == {Plain(sh) : sh \in Shapes}
ascii_upper(s) ==
    [i \in 1..Len(s) |->
        IF IsLower(s[i])
        THEN UpperAlpha[CHOOSE k \in DOMAIN LowerAlpha : LowerAlpha[k] = s[i]]
        ELSE s[i]]
InGrammar(t) == ascii_upper(strip(t)) \in NormalGrammar

\* Texts off the grammar by one edit of a grammar text: a character
\* deleted, replaced or inserted.
EditChars == {"A", "E", "Q", " ", "-", "+", "\n", "(", ")", "U+0130"}
EditSeeds ==
    {sh \in Shapes : sh.suffix # None =>
        LET x == Val(sh.suffix) IN x.d \in {0, 1} /\ x.pre = x.in1 /\ x.in1 = x.in2}
Edits(s) ==
    {SubSeq(s, 1, i - 1) \o SubSeq(s, i + 1, Len(s)) : i \in 1..Len(s)}
    \cup {[s EXCEPT ![ic[1]] = ic[2]] : ic \in (1..Len(s)) \X EditChars}
    \cup {SubSeq(s, 1, ic[1] - 1) \o <<ic[2]>> \o SubSeq(s, ic[1], Len(s)) :
            ic \in (1..Len(s) + 1) \X EditChars}

\* The invalid tags of tests/test_integrity.py, the empty string, and the
\* repeated separator.
OtherTexts ==
    {<<>>,
     <<"a">>,
     <<"A", "S", "I", "L", " ", "Q", "M">>,
     <<"A", "S", "I", "L", "-", "A", "(", " ", "E", ")">>,
     <<"A", "S", "I", "L", "-", "E">>,
     <<"a", "s", "i", "l", "a", "d">>,
     <<"A", "S", "I", "L", "E">>,
     <<"a", "s", "i", "l", "q", "m">>,
     <<"b", "o", "b">>,
     <<"A", "S", "I", "L", "-", "_", "D">>,
     <<"A", "S", "I", "L", " ", "D", "(", "(", "A", ")", ")">>}

\* The second argument of verify_inheritance.
Partners ==
    {<<"a", "s", "i", "l", "_", "b", " ", "(", "D", " ", ")">>,
     <<"A", "S", "I", "L", "-", "E">>}

(***************************************************************************)
(* State                                                                   *)
(***************************************************************************)
VARIABLES
    text,    \* the text handed to the module-level functions
    named,   \* the levels that text names, when it was spelled from a shape
    objs,    \* the Integrity objects the client holds, by reference
    made,    \* the constructor arguments each held object was made from
    out      \* the last call: the operation, its arguments, its outcome

vars == <<text, named, objs, made, out>>

Refs == {"a", "b"}
NoCall == [op |-> "none"]

(***************************************************************************)
(* TextSpec: the functions that take text, on texts in and off the grammar *)
(***************************************************************************)
TextInit ==
    /\ \/ \E sh \in Shapes, lead \in Pads, trail \in Pads, mode \in CaseModes :
            /\ mode = "upper" \/ lead = trail
            /\ text = lead \o ApplyCase(Plain(sh), mode) \o trail
            /\ named = Some(Names(sh))
       \/ \E sh \in EditSeeds :
            /\ text \in Edits(Plain(sh))
            /\ named = None
       \/ /\ text \in OtherTexts
          /\ named = None
    /\ objs = [r \in Refs |-> None]
    /\ made = [r \in Refs |-> None]
    /\ out = NoCall

\* The functions keep no state between calls, so a run makes one call on
\* its text; only a canonicalize result is fed to a further call.
Idle == out = NoCall

\* validate(text)
Validate ==
    /\ Idle
    /\ out' = [op |-> "validate", arg |-> text, result |-> Ret(validate(text))]
    /\ UNCHANGED <<text, named, objs, made>>

\* Integrity(text, store_original)
Construct ==
    \E store_original \in BOOLEAN :
        /\ Idle
        /\ out' = [op |-> "Integrity", arg |-> text, store_original |-> store_original,
                   result |-> init(text, store_original)]
        /\ UNCHANGED <<text, named, objs, made>>

\* canonicalize(text)
Canonicalize ==
    /\ Idle
    /\ out' = [op |-> "canonicalize", arg |-> text, result |-> canonicalize(text)]
    /\ UNCHANGED <<text, named, objs, made>>

\* canonicalize applied to the string a canonicalize call returned
Recanonicalize ==
    /\ out.op = "canonicalize"
    /\ Returned(out.result)
    /\ out' = [op |-> "canonicalize", arg |-> out.result.value,
               result |-> canonicalize(out.result.value)]
    /\ UNCHANGED <<text, named, objs, made>>

\* verify_inheritance with text as the parent or as the child
VerifyInheritance ==
    \E other \in Partners, as_parent \in BOOLEAN :
        LET parent == IF as_parent THEN text ELSE other
            child == IF as_parent THEN other ELSE text
        IN  /\ Idle
            /\ out' = [op |-> "verify_inheritance", parent |-> parent, child |-> child,
                       result |-> verify_inheritance(parent, child)]
            /\ UNCHANGED <<text, named, objs, made>>

TextNext ==
    \/ Validate
    \/ Construct
    \/ Canonicalize
    \/ Recanonicalize
    \/ VerifyInheritance

TextSpec == TextInit /\ [][TextNext]_vars

(***************************************************************************)
(* Spec: a client that constructs Integrity objects and calls their        *)
(* methods, with each held object as receiver and as argument.             *)
(***************************************************************************)
\* The texts the client constructs from: every base and decomposed level in
\* the usual spelling, the spellings of tests/test_integrity.py with case
\* and whitespace to preserve, and two texts off the grammar.
Tags ==
    {Plain(sh) : sh \in {sh \in Shapes :
        /\ sh.sep = (IF sh.b = 0 THEN <<>> ELSE <<" ">>)
        /\ sh.suffix # None =>
             LET x == Val(sh.suffix) IN x.pre = 0 /\ x.in1 = 0 /\ x.in2 = 0}}
    \cup
    {<<" ", "A", "s", "i", "l", "D", " ">>,
     <<"q", "m", " ", "(", "b", " ", ")">>,
     <<" ", "A", "S", "I", "L", "_", "D", " ", "(", "Q", "M", " ", ")">>,
     <<"A", "S", "I", "L", "-", "E">>,
     <<>>}

\* The texts the client asks to keep as original.
KeptTags ==
    {QM,
     <<"A", "S", "I", "L", " ", "B", "(", "Q", "M", ")">>,
     <<" ", "A", "s", "i", "l", "D", " ">>,
     <<"q", "m", " ", "(", "b", " ", ")">>,
     <<" ", "A", "S", "I", "L", "_", "D", " ", "(", "Q", "M", " ", ")">>,
     <<"A", "S", "I", "L", "-", "E">>}

Relations == {"==", "!=", "<", "<=", ">", ">="}

Held(r) == objs[r] # None
Obj(r) == Val(objs[r])

Init ==
    /\ text = <<>>
    /\ named = None
    /\ objs = [r \in Refs |-> None]
    /\ made = [r \in Refs |-> None]
    /\ out = NoCall

\* r = Integrity(asil, store_original), for a reference r not yet bound: r
\* is bound only if no error is raised.
New ==
    \E r \in Refs, asil \in Tags, store_original \in BOOLEAN :
        LET res == init(asil, store_original) IN
        /\ ~Held(r)
        /\ store_original => asil \in KeptTags
        /\ out' = [op |-> "Integrity", ref |-> r, arg |-> asil,
                   store_original |-> store_original, result |-> res]
        /\ IF Returned(res)
           THEN /\ objs' = [objs EXCEPT ![r] = Some(res.value)]
                /\ made' = [made EXCEPT ![r] =
                              Some([asil |-> asil, store_original |-> store_original])]
           ELSE UNCHANGED <<objs, made>>
        /\ UNCHANGED <<text, named>>

\* str(r)
Str ==
    \E r \in Refs :
        /\ Held(r)
        /\ out' = [op |-> "str", self |-> r, result |-> Ret(str(Obj(r)))]
        /\ UNCHANGED <<text, named, objs, made>>

\* r1 <rel> r2
Compare ==
    \E r1 \in Refs, r2 \in Refs, rel \in Relations :
        /\ Held(r1) /\ Held(r2)
        /\ out' = [op |-> "compare", rel |-> rel, self |-> r1, other |-> r2,
                   result |-> Ret(CASE rel = "==" -> eq(Obj(r1), Obj(r2))
                                    [] rel = "!=" -> ne(Obj(r1), Obj(r2))
                                    [] rel = "<" -> lt(Obj(r1), Obj(r2))
                                    [] rel = "<=" -> le(Obj(r1), Obj(r2))
                                    [] rel = ">" -> gt(Obj(r1), Obj(r2))
                                    [] rel = ">=" -> ge(Obj(r1), Obj(r2)))]
        /\ UNCHANGED <<text, named, objs, made>>

\* r.original handing the kept text over and clearing the field.
Original_consuming ==
    \E r \in Refs :
        /\ Held(r)
        /\ out' = [op |-> "original", self |-> r, result |-> original(Obj(r))]
        /\ objs' = [objs EXCEPT ![r] = Some([Obj(r) EXCEPT !.original = None])]
        /\ UNCHANGED <<text, named, made>>

\* r.original
Original ==
    \E r \in Refs :
        /\ Held(r)
        /\ out' = [op |-> "original", self |-> r, result |-> original(Obj(r))]
        /\ UNCHANGED <<text, named, objs, made>>

\* child.verify_with_parent(parent)
VerifyWithParent ==
    \E c \in Refs, p \in Refs :
        /\ Held(c) /\ Held(p)
        /\ out' = [op |-> "verify_with_parent", parent |-> p, child |-> c,
                   result |-> Ret(verify_with_parent(Obj(c), Obj(p)))]
        /\ UNCHANGED <<text, named, objs, made>>

\* parent.verify_with_child(child)
VerifyWithChild ==
    \E p \in Refs, c \in Refs :
        /\ Held(p) /\ Held(c)
        /\ out' = [op |-> "verify_with_child", parent |-> p, child |-> c,
                   result |-> Ret(verify_with_child(Obj(p), Obj(c)))]
        /\ UNCHANGED <<text, named, objs, made>>

\* verify_inheritance on the texts two held objects were made from
VerifyTexts ==
    \E p \in Refs, c \in Refs :
        /\ Held(p) /\ Held(c)
        /\ out' = [op |-> "verify_inheritance", parent |-> p, child |-> c,
                   result |-> verify_inheritance(Val(made[p]).asil, Val(made[c]).asil)]
        /\ UNCHANGED <<text, named, objs, made>>

Next ==
    \/ New
    \/ Str
    \/ Compare
    \/ Original
    \/ VerifyWithParent
    \/ VerifyWithChild
    \/ VerifyTexts

Spec == Init /\ [][Next]_vars

(***************************************************************************)
(* Properties                                                              *)
(***************************************************************************)
NonAscii == {"U+0130", "U+0131", "U+017F", "U+212A"}
IsAscii(t) == \A i \in 1..Len(t) : t[i] \notin NonAscii

\* The canonical text of spec section 4.3 for an object's levels.
Rendering(o) ==
    (IF o.base = 0 THEN QM ELSE <<"A", "S", "I", "L", " ">> \o LevelName(o.base))
    \o (IF o.decomposed = None THEN <<>>
        ELSE <<"(">> \o LevelName(Val(o.decomposed)) \o <<")">>)

\* C1: for every text x of the grammar, canonicalize(x) returns a text y
\* that is itself valid, canonicalize(y) returns y again, and constructing
\* from y gives the object constructing from x gives.
C1_CanonicalizeIdempotent ==
    (out.op = "canonicalize" /\ InGrammar(out.arg)) =>
        /\ Returned(out.result)
        /\ LET y == out.result.value IN
           /\ validate(y)
           /\ canonicalize(y) = Ret(y)
           /\ init(y, FALSE) = init(out.arg, FALSE)

\* C2: str() of an object is "QM" for base QM and "ASIL <letter>" for the
\* bases A to D, followed by "(<level>)" without a space exactly when a
\* decomposed level is present, QM included.
C2_Rendering ==
    out.op = "str" => out.result = Ret(Rendering(Obj(out.self)))

\* C3: every text spelled from the grammar, in any case and with outer
\* whitespace, is valid, and constructing from it succeeds with the base
\* and decomposed levels the text names.
C3_GrammarAccepted ==
    named # None =>
        /\ out.op = "validate" => out.result = Ret(TRUE)
        /\ out.op = "Integrity" =>
             /\ Returned(out.result)
             /\ out.result.value.base = Val(named).base
             /\ out.result.value.decomposed = Val(named).decomposed

C3_Witness ==
    /\ named # None
    /\ out.op = "Integrity"
    /\ Returned(out.result)
    /\ out.result.value.base = 4
    /\ out.result.value.decomposed = Some(0)
    /\ text # ascii_upper(text)
    /\ Len(strip(text)) < Len(text)

\* What C4 says of one call on texts off the grammar.
RejectedOffGrammar ==
    /\ (out.op = "validate" /\ ~InGrammar(out.arg)) => out.result = Ret(FALSE)
    /\ (out.op \in {"Integrity", "canonicalize"} /\ ~InGrammar(out.arg)) =>
          out.result = Raise("IntegrityError", out.arg)
    /\ (out.op = "verify_inheritance"
          /\ (~InGrammar(out.parent) \/ ~InGrammar(out.child))) =>
          /\ ~Returned(out.result)
          /\ out.result.type = "IntegrityError"
          /\ out.result.arg \in {x \in {out.parent, out.child} : ~InGrammar(x)}
    /\ out.op = "validate" =>
          out.result.value = Returned(init(out.arg, FALSE))

\* C4: on every text outside the grammar validate returns false, and the
\* constructor, canonicalize and verify_inheritance raise IntegrityError
\* carrying the offending text; validate is true exactly when the
\* constructor succeeds.
C4_OffGrammarRejected == RejectedOffGrammar

\* The statement of C4 holds of the calls whose texts are all ASCII.
OffGrammarRejectedAscii ==
    (/\ out.op \in {"validate", "Integrity", "canonicalize"} => IsAscii(out.arg)
     /\ out.op = "verify_inheritance" => IsAscii(out.parent) /\ IsAscii(out.child))
    => RejectedOffGrammar

C6_OrderOnBase ==
    out.op = "compare" =>
        LET a == Obj(out.self)
            b == Obj(out.other)
        IN  /\ out.result =
                 Ret(CASE out.rel = "==" -> a.base = b.base
                       [] out.rel = "!=" -> a.base # b.base
                       [] out.rel = "<" -> a.base < b.base
                       [] out.rel = "<=" -> a.base <= b.base
                       [] out.rel = ">" -> a.base > b.base
                       [] out.rel = ">=" -> a.base >= b.base)
            /\ Cardinality({x \in {"<", "==", ">"} :
                              \/ x = "<" /\ lt(a, b)
                              \/ x = "==" /\ eq(a, b)
                              \/ x = ">" /\ gt(a, b)}) = 1

C6_Witness ==
    /\ out.op = "compare"
    /\ out.rel = "=="
    /\ out.result = Ret(TRUE)
    /\ Obj(out.self).decomposed # Obj(out.other).decomposed
    /\ Obj(out.self).original # Obj(out.other).original

\* C7: original raises the not-available error on an object made without
\* store_original, and returns the constructor's text itself, whitespace
\* and case included, on an object made with it.
C7_Original ==
    out.op = "original" =>
        LET m == Val(made[out.self]) IN
        out.result = IF m.store_original THEN Ret(m.asil)
                     ELSE Raise("AttributeError", None)

C7_Witness ==
    /\ out.op = "original"
    /\ Returned(out.result)
    /\ out.result.value # strip(out.result.value)
    /\ out.result.value # ascii_upper(out.result.value)
    /\ out.result.value # str(Obj(out.self))

\* C8: verify_inheritance on the texts of a parent and a child,
\* parent.verify_with_child(child) and child.verify_with_parent(parent)
\* give the same answer.
C8_ThreeFormsAgree ==
    out.op \in {"verify_inheritance", "verify_with_child", "verify_with_parent"} =>
        LET p == out.parent
            c == out.child
        IN  /\ Returned(out.result)
            /\ verify_inheritance(Val(made[p]).asil, Val(made[c]).asil) = out.result
            /\ verify_with_child(Obj(p), Obj(c)) = out.result.value
            /\ verify_with_parent(Obj(c), Obj(p)) = out.result.value

C8_Witness ==
    /\ out.op = "verify_with_child"
    /\ out.result = Ret(TRUE)
    /\ Obj(out.parent).decomposed # Some(Obj(out.child).base)

\* C9: no method call changes a field of a held object: in every step the
\* base, decomposed and original of each object stay what they were.
C9_Immutable ==
    [][\A r \in Refs : Held(r) => objs'[r] = objs[r]]_vars

C9_Witness ==
    /\ out.op = "original"
    /\ Returned(out.result)
    /\ Obj(out.self).original = Some(out.result.value)
    /\ \A r \in Refs : Held(r)

\* C10: when an inheritance check succeeds the child's base level is at
\* most the parent's.
C10_ChildNotAboveParent ==
    (/\ out.op \in {"verify_inheritance", "verify_with_child", "verify_with_parent"}
     /\ out.result = Ret(TRUE))
    => /\ Obj(out.child).base <= Obj(out.parent).base
       /\ le(Obj(out.child), Obj(out.parent))

C10_Witness ==
    /\ out.op = "verify_with_parent"
    /\ out.result = Ret(TRUE)
    /\ Obj(out.child).base < Obj(out.parent).base
====
